---- MODULE Spec2Model ----
(***************************************************************************)
(* Model of robocasa/scripts/dataset_states_to_obs.py: the work queue of  *)
(* episode indices, the worker loop that claims and replays them, the     *)
(* output queue and the single writer that turns records into episode     *)
(* groups of the output archive.                                          *)
(*                                                                         *)
(* Arrays are modelled by their number of rows: nothing in the queueing   *)
(* or writing code looks at their contents.  Both queues are FIFOs whose  *)
(* put is visible to the next get or empty().  Steps of a process that    *)
(* touch nothing shared are part of the action that follows them.         *)
(* An exception the environment may raise (simulator, files, os.popen) is *)
(* a step that may or may not happen, at most MaxFaults times in a run.   *)
(***************************************************************************)
EXTENDS Integers, Sequences, FiniteSets, TLC

(* ---- bounds of the model ---- *)
MaxDemos == 2        \* largest number of episodes in the source dataset
MaxProcs == 2        \* largest number of worker processes
MaxFaults == 1       \* exceptions raised by the environment in one run
\* episodes of the source archive in the runs of one worker with the writer
MaxEpisodes == 3
\* components of a file path in an XML document
MaxPathLen == 3
\* the largest number in a scale argument
MaxScale == 2

(* ---- program constants ---- *)
traj_len == 20       \* extract_trajectory: "traj_len = 20 #states.shape[0]"
EMPTY == 0 - 1       \* retrieve_new_index: "return -1"

\* the lengths of source trajectories tried: shorter than, equal to and longer
\* than the number of steps extract_trajectory replays
SourceLens == {traj_len - 1, traj_len, traj_len + 1}

VARIABLES
    num_demos,           \* len(demos), the number of indices enqueued
    num_procs,           \* args.num_procs / the range of process_num
    states_len,          \* index -> states.shape[0] (= actions.shape[0]) in the source file
    args,                \* the command-line flags read by the code modelled
    work_queue,          \* multiprocessing.Queue of indices
    current_work_array,  \* multiprocessing.Array("i", num_processes)
    mul_queue,           \* PersistQueue of [ep, traj, process_num]
    pc,                  \* process_num -> position in extract_multiple_trajectories
    ind,                 \* process_num -> local ind of the worker loop
    env,                 \* process_num -> the worker's env: none yet, the first one, a recreated one
    wpc,                 \* position of write_traj_to_file
    num_processed,       \* write_traj_to_file: num_processed
    total_samples,       \* write_traj_to_file: total_samples (parameter, then updated)
    groups,              \* data_grp: the episode groups created, in creation order
    total_attr,          \* data_grp.attrs["total"], EMPTY while unset
    faults,              \* exceptions raised so far by the environment
    hist,                \* history of the run (see HistInit)
    mpc,                 \* position of dataset_states_to_obs_multiprocessing
    lock,                \* multiprocessing.Lock(): the process_num holding it, or EMPTY
    tmp,                 \* process_num -> local tmp of retrieve_new_index
    done_mode,           \* extract_trajectory: the done_mode argument
    t,                   \* extract_trajectory: the loop variable, EMPTY before the loop
    success,             \* extract_trajectory: env._check_success() at step t
    done,                \* extract_trajectory: the done signal written for step t
    elem_file,           \* postprocess_model_xml: the file attribute of the element
    old_path,            \* postprocess_model_xml: what elem.get("file") returned
    xpc,                 \* postprocess_model_xml: "parsed" before the loop body, "done" after
    scale,               \* MJCFObject.__init__: the scale argument, [kind, val]
    scale_arr,           \* MJCFObject.__init__: scale after np.array(scale), << >> before
    xml_file,            \* the file at mjcf_path: a mesh's scale attribute, a site's pos
    tree,                \* MJCFObject.__init__: the parsed document, as modified
    opc                  \* MJCFObject.__init__: "call", "checked", "built" or "rejected"

vars == << num_demos, num_procs, states_len, args, work_queue, current_work_array,
           mul_queue, pc, ind, env, wpc, num_processed, total_samples, groups,
           total_attr, faults, hist, mpc, lock, tmp, done_mode, t, success, done,
           elem_file, old_path, xpc, scale, scale_arr, xml_file, tree, opc >>

\* the arguments and locals of the functions that are run on their own
xml == << elem_file, old_path, xpc >>
obj == << scale, scale_arr, xml_file, tree, opc >>
units == << done_mode, t, success, done, xml, obj >>

\* what the actions of the worker and writer processes never write: the
\* dispatcher's position, and the lock and the locals of retrieve_new_index,
\* which are free again whenever a call has returned, and the functions run on
\* their own
aux == << mpc, lock, tmp, units >>

config == << num_demos, num_procs, states_len, args >>
worker == << work_queue, current_work_array, pc, ind, env >>
writer == << wpc, num_processed, total_samples, groups, total_attr >>

Procs == 0 .. (num_procs - 1)
Indices == 0 .. (num_demos - 1)

Min(a, b) == IF a < b THEN a ELSE b

\* demos[ind]: the episode key of an index ("demo_<i>", sorted by number)
demos(i) == << "demo_", i >>

\* the values a slot of current_work_array can hold: multiprocessing.Array("i", n)
\* starts zeroed, so 0 is there also when no index 0 exists
Slots == Indices \cup {0}

(***************************************************************************)
(* History of the run.  None of it is read by the program's actions.      *)
(*   claimed[i]   successful retrieve_new_index calls that returned i     *)
(*   emptyCall    a retrieve_new_index call has returned -1                *)
(*   put[i]       records of index i put on mul_queue                     *)
(*   requeued[i]  times i was put back on work_queue by the outer handler *)
(*   failed[i]    attempts at i that raised (counted up to FailCap)        *)
(*   held[p]      index p has claimed and not yet put a record for        *)
(*   fresh[p]     p has claimed an index since its last failed attempt    *)
(*   exitHeld[p]  held[p] when an exception escaped p's loop              *)
(*   exitPut[p]   the value the outer handler put back for p              *)
(*   escaped[p]   an exception escaped extract_..._with_error in p        *)
(***************************************************************************)
HistInit(n, np) ==
    [ claimed    |-> [i \in (0 .. (n - 1)) \cup {0} |-> 0],
      emptyCall  |-> FALSE,
      put        |-> [i \in (0 .. (n - 1)) \cup {0} |-> 0],
      requeued   |-> [i \in (0 .. (n - 1)) \cup {0} |-> 0],
      failed     |-> [i \in (0 .. (n - 1)) \cup {0} |-> 0],
      held       |-> [p \in 0 .. (np - 1) |-> EMPTY],
      fresh      |-> [p \in 0 .. (np - 1) |-> TRUE],
      exitHeld   |-> [p \in 0 .. (np - 1) |-> EMPTY],
      exitPut    |-> [p \in 0 .. (np - 1) |-> EMPTY],
      escaped    |-> [p \in 0 .. (np - 1) |-> FALSE] ]

\* for index in range(num_demos): work_queue.put(index)
InitialQueue(n) == [k \in 1 .. n |-> k - 1]

\* lines 177-184, 395-430, 565-574: the shared objects and every process's
\* locals as the dispatcher, the workers and the writer first set them
Constructed ==
    /\ states_len \in [0 .. (num_demos - 1) -> SourceLens]
    /\ args \in [copy_rewards : BOOLEAN, copy_dones : BOOLEAN]
    /\ work_queue = InitialQueue(num_demos)
    /\ current_work_array = [p \in 0 .. (num_procs - 1) |-> 0]
    /\ mul_queue = << >>
    /\ pc = [p \in 0 .. (num_procs - 1) |-> "start"]
    /\ ind = [p \in 0 .. (num_procs - 1) |-> EMPTY]
    /\ env = [p \in 0 .. (num_procs - 1) |-> "none"]
    /\ wpc = "test"
    /\ num_processed = 0
    /\ total_samples = num_demos
    /\ groups = << >>
    /\ total_attr = EMPTY
    /\ faults = 0
    /\ hist = HistInit(num_demos, num_procs)
    /\ mpc = "processes"
    /\ lock = EMPTY
    /\ tmp = [p \in 0 .. (num_procs - 1) |-> EMPTY]

\* extract_trajectory before its loop, with --done_mode at its default
IdleDones ==
    /\ done_mode = 0
    /\ t = EMPTY
    /\ success = FALSE
    /\ done = 0

\* an attribute of an XML element: absent (elem.get returns None), or a path
\* given by its components, old_path.split("/")
NoAttr == [present |-> FALSE, split |-> << >>]
Attr(sp) == [present |-> TRUE, split |-> sp]

\* postprocess_model_xml on a document whose element has no file attribute
IdleXml ==
    /\ elem_file = NoAttr
    /\ old_path = NoAttr
    /\ xpc = "parsed"

\* no document parsed yet
NoTree == [read |-> FALSE, mesh |-> << >>, site |-> << >>]

\* MJCFObject(name, mjcf_path) about to be constructed with the default
\* scale=1.0, on a file whose mesh has no scale attribute
IdleObj ==
    /\ scale = [kind |-> "float", val |-> 1]
    /\ scale_arr = << >>
    /\ xml_file = [mesh |-> << >>, site |-> << 0, 0, 1 >>]
    /\ tree = NoTree
    /\ opc = "call"

\* the functions that are run on their own, not called
Idle == IdleDones /\ IdleXml /\ IdleObj

Init ==
    /\ num_demos \in 0 .. MaxDemos
    /\ num_procs \in 1 .. MaxProcs
    /\ Constructed
    /\ Idle

(* ---------------- retrieve_new_index ---------------- *)

\* the body run under the lock: the returned value, the queue left behind and
\* whether the caller's slot is written
retrieve_new_index_peek(q) ==
    IF q = << >>
      THEN [ret |-> EMPTY, queue |-> q, record |-> FALSE]
      ELSE [ret |-> Head(q), queue |-> q, record |-> TRUE]

retrieve_new_index(q) ==
    IF q = << >>
      THEN [ret |-> EMPTY, queue |-> q, record |-> FALSE]
      ELSE [ret |-> Head(q), queue |-> Tail(q), record |-> TRUE]

\* a call of retrieve_new_index by worker p, at line 432 or at line 486
Retrieve(p) ==
    LET r == retrieve_new_index(work_queue) IN
    /\ work_queue' = r.queue
    /\ ind' = [ind EXCEPT ![p] = r.ret]
    /\ current_work_array' =
          IF r.record THEN [current_work_array EXCEPT ![p] = r.ret]
                      ELSE current_work_array
    /\ hist' = IF r.ret = EMPTY
                 THEN [hist EXCEPT !.emptyCall = TRUE]
                 ELSE [hist EXCEPT !.claimed[r.ret] = @ + 1,
                                   !.held[p] = r.ret,
                                   !.fresh[p] = TRUE]
    /\ pc' = [pc EXCEPT ![p] = "test"]

(* ---------------- extract_trajectory ---------------- *)

\* for t in range(traj_len): states[t] raises IndexError on a source shorter than traj_len
extract_raises(T) == T < traj_len

\* rows of the arrays of the returned traj for a source of T states and T actions:
\* actions and states are copied, obs / rewards / dones get one entry per loop iteration
extract_trajectory(T) ==
    [actions |-> T, states |-> T, rewards |-> traj_len, dones |-> traj_len,
     obs |-> traj_len]

(* ---------------- extract_multiple_trajectories ---------------- *)

\* the history after an attempt of p at ind[p] raised into the inner handler
\* (requeued[i] never exceeds MaxFaults, so failures are counted up to it)
attempt_failed(h, p) ==
    [h EXCEPT !.failed[ind[p]] = Min(@ + 1, MaxFaults), !.fresh[p] = FALSE]

\* except Exception (line 370), entered with history h:
\* work_queue.put(current_work_array[process_num]); the worker returns
OuterHandler(h, p) ==
    /\ work_queue' = Append(work_queue, current_work_array[p])
    /\ pc' = [pc EXCEPT ![p] = "exited"]
    /\ hist' = [h EXCEPT !.requeued[current_work_array[p]] = @ + 1,
                         !.exitHeld[p] = h.held[p],
                         !.exitPut[p] = current_work_array[p],
                         !.escaped[p] = TRUE,
                         !.held[p] = EMPTY]

(* ---------------- extract_multiple_trajectories_with_error ---------------- *)

\* lines 395-432: the environment is created, the dataset opened and the first
\* index claimed
Setup(p) ==
    /\ pc[p] = "start"
    /\ env' = [env EXCEPT ![p] = "first"]
    /\ Retrieve(p)
    /\ UNCHANGED << aux, config, mul_queue, writer, faults >>

\* lines 395-430 raise (create_env, h5py.File): the exception escapes the function
SetupFail(p) ==
    /\ pc[p] = "start"
    /\ faults < MaxFaults
    /\ faults' = faults + 1
    /\ OuterHandler(hist, p)
    /\ UNCHANGED << aux, config, current_work_array, mul_queue, ind, env, writer >>

\* line 433: while (not work_queue.empty()) and (ind != -1)
loop_condition(p) == work_queue # << >> /\ ind[p] # EMPTY

\* line 433 and, when the loop is left, lines 496-497: f.close(), return
LoopTest(p) ==
    /\ pc[p] = "test"
    /\ pc' = [pc EXCEPT ![p] = IF loop_condition(p) THEN "body" ELSE "done"]
    /\ UNCHANGED << aux, config, work_queue, current_work_array, mul_queue, ind, env,
                    writer, faults, hist >>

\* the loop is left and lines 496-497 raise: the exception escapes the function
CloseFail(p) ==
    /\ pc[p] = "test"
    /\ ~ loop_condition(p)
    /\ faults < MaxFaults
    /\ faults' = faults + 1
    /\ OuterHandler(hist, p)
    /\ UNCHANGED << aux, config, current_work_array, mul_queue, ind, env, writer >>

\* lines 436-457 raise for certain: demos[ind] on an index the dataset does not
\* have (the zero of an unwritten slot, put back on an empty dataset), or the replay
replay_raises(i) == IF i \in Indices THEN extract_raises(states_len[i]) ELSE TRUE

\* lines 459-463: maybe copy reward or done signal from the source file, whose
\* rewards and dones have one row per state
copy_signals(traj, T) ==
    [traj EXCEPT !.rewards = IF args.copy_rewards THEN T ELSE @,
                 !.dones = IF args.copy_dones THEN T ELSE @]

\* lines 434-480: the claimed index is replayed and its record put on mul_queue
ExtractPut(p) ==
    /\ pc[p] = "body"
    /\ ~ replay_raises(ind[p])
    /\ mul_queue' = Append(mul_queue,
          [ep |-> demos(ind[p]),
           traj |-> copy_signals(extract_trajectory(states_len[ind[p]]), states_len[ind[p]]),
           process_num |-> p])
    /\ hist' = [hist EXCEPT !.put[ind[p]] = @ + 1, !.held[p] = EMPTY]
    /\ pc' = [pc EXCEPT ![p] = "claim"]
    /\ UNCHANGED << aux, config, work_queue, current_work_array, ind, env, writer, faults >>

\* the exceptions it takes for p's attempt to raise into the inner handler: none
\* where lines 436-457 raise for certain, one when the simulator, the file or
\* lines 482-483 (os.popen after mul_queue.put) raise
raise_cost(p) == IF pc[p] = "body" /\ replay_raises(ind[p]) THEN 0 ELSE 1

\* lines 487-494: the handler of the loop prints, deletes env, creates a new
\* one, and the loop goes back to its test with ind unchanged
InnerHandler(p) ==
    /\ env' = [env EXCEPT ![p] = "recreated"]
    /\ hist' = attempt_failed(hist, p)
    /\ pc' = [pc EXCEPT ![p] = "test"]

\* lines 434-478 raise before mul_queue.put
ExtractFail(p) ==
    /\ pc[p] = "body"
    /\ faults + raise_cost(p) <= MaxFaults
    /\ faults' = faults + raise_cost(p)
    /\ InnerHandler(p)
    /\ UNCHANGED << aux, config, work_queue, current_work_array, mul_queue, ind, writer >>

\* line 486
NextClaim(p) ==
    /\ pc[p] = "claim"
    /\ Retrieve(p)
    /\ UNCHANGED << aux, config, mul_queue, env, writer, faults >>

\* lines 482-483 raise after mul_queue.put
PostPutFail(p) ==
    /\ pc[p] = "claim"
    /\ faults + raise_cost(p) <= MaxFaults
    /\ faults' = faults + raise_cost(p)
    /\ InnerHandler(p)
    /\ UNCHANGED << aux, config, work_queue, current_work_array, mul_queue, ind, writer >>

\* an attempt raises and line 494 raises inside the handler: the exception
\* escapes the function
RecreateFail(p) ==
    /\ pc[p] \in {"body", "claim"}
    /\ faults + raise_cost(p) + 1 <= MaxFaults
    /\ faults' = faults + raise_cost(p) + 1
    /\ OuterHandler(attempt_failed(hist, p), p)
    /\ UNCHANGED << aux, config, current_work_array, mul_queue, ind, env, writer >>

(* ---------------- write_traj_to_file ---------------- *)

\* the datasets of an episode group, in the order they are created
DatasetOrder == << "actions", "states", "rewards", "dones", "obs" >>

group_exists(ep) == \E k \in 1 .. Len(groups) : groups[k].ep = ep

\* the group after the first k create_dataset calls; num_samples is set last
episode_group(item, k) ==
    [ep |-> item.ep,
     rows |-> [d \in {DatasetOrder[j] : j \in 1 .. k} |-> item.traj[d]],
     num_samples |-> IF k = Len(DatasetOrder) THEN item.traj.actions ELSE EMPTY]

\* lines 186, 282-291: where the writer goes when an exception leaves the while
\* loop.  The inner handler turns every Exception into a new Exception; the
\* outer try has an except clause for KeyboardInterrupt alone, after which the
\* function carries on with line 293; anything else leaves write_traj_to_file
outer_except_all(exc) == "post"

outer_except(exc) == IF exc = "KeyboardInterrupt" THEN "post" ELSE "aborted"

\* line 187: while num_processed < total_samples
WriterTest ==
    /\ wpc = "test"
    /\ wpc' = IF num_processed < total_samples THEN "get" ELSE "post"
    /\ UNCHANGED << aux, config, worker, mul_queue, num_processed, total_samples, groups,
                    total_attr, faults, hist >>

\* lines 188-289: one record is taken (mul_queue.get() blocks while the queue is
\* empty) and written; h5py's create_group raises on a name that exists, which
\* the handler of line 282 turns into the exception that leaves the function
WriterStep ==
    /\ wpc = "get"
    /\ mul_queue # << >>
    /\ LET item == Head(mul_queue) IN
         /\ mul_queue' = Tail(mul_queue)
         /\ num_processed' = num_processed + 1
         /\ IF group_exists(item.ep)
              THEN /\ wpc' = outer_except("Exception")
                   /\ UNCHANGED << groups, total_samples >>
              ELSE /\ groups' = Append(groups, episode_group(item, Len(DatasetOrder)))
                   /\ total_samples' = total_samples + item.traj.actions
                   /\ wpc' = "test"
    /\ UNCHANGED << aux, config, worker, total_attr, faults, hist >>

\* lines 194-281 raise after the group was created and k datasets written
WriterFail ==
    /\ wpc = "get"
    /\ mul_queue # << >>
    /\ faults < MaxFaults
    /\ faults' = faults + 1
    /\ LET item == Head(mul_queue) IN
         /\ ~ group_exists(item.ep)
         /\ mul_queue' = Tail(mul_queue)
         /\ num_processed' = num_processed + 1
         /\ \E k \in 0 .. (Len(DatasetOrder) - 1) :
               groups' = Append(groups, episode_group(item, k))
         /\ wpc' = outer_except("Exception")
    /\ UNCHANGED << aux, config, worker, total_samples, total_attr, hist >>

\* line 290: except KeyboardInterrupt, raised anywhere in the loop
WriterInterrupt ==
    /\ wpc \in {"test", "get"}
    /\ faults < MaxFaults
    /\ faults' = faults + 1
    /\ wpc' = outer_except("KeyboardInterrupt")
    /\ UNCHANGED << aux, config, worker, mul_queue, num_processed, total_samples, groups,
                    total_attr, hist >>

\* lines 293-359: global metadata, the filtered archives, return
WriterPost ==
    /\ wpc = "post"
    /\ total_attr' = total_samples
    /\ wpc' = "finished"
    /\ UNCHANGED << aux, config, worker, mul_queue, num_processed, total_samples, groups,
                    faults, hist >>

\* the worker processes: extract_multiple_trajectories(i, ...) for i in range(num_processes)
NextWorkers ==
    \/ \E p \in Procs : Setup(p)
    \/ \E p \in Procs : SetupFail(p)
    \/ \E p \in Procs : LoopTest(p)
    \/ \E p \in Procs : ExtractPut(p)
    \/ \E p \in Procs : ExtractFail(p)
    \/ \E p \in Procs : NextClaim(p)
    \/ \E p \in Procs : PostPutFail(p)
    \/ \E p \in Procs : RecreateFail(p)
    \/ \E p \in Procs : CloseFail(p)

\* the writer process: write_traj_to_file(args, output_path, num_demos, mul_queue)
NextWriter ==
    \/ WriterTest
    \/ WriterStep
    \/ WriterFail
    \/ WriterInterrupt
    \/ WriterPost

Next == NextWorkers \/ NextWriter

Spec == Init /\ [][Next]_vars

\* the workers alone, which the writer never writes to, run with the flags' defaults
InitWorkers == Init /\ args = [copy_rewards |-> FALSE, copy_dones |-> FALSE]
SpecWorkers == InitWorkers /\ [][NextWorkers]_vars

\* the step worker p takes next when nothing outside the program raises: every
\* statement of a running process is executed sooner or later, while the
\* exceptions of the simulator, the files and os.popen need not ever happen
ProgramStep(p) ==
    \/ Setup(p)
    \/ LoopTest(p)
    \/ ExtractPut(p)
    \/ ExtractFail(p) /\ raise_cost(p) = 0
    \/ NextClaim(p)

\* the workers, each scheduled fairly
SpecFair ==
    /\ InitWorkers
    /\ [][NextWorkers]_vars
    /\ \A p \in 0 .. (MaxProcs - 1) : WF_vars(p \in Procs /\ ProgramStep(p))

\* one worker and the writer, run with the flags' defaults, over archives long
\* enough for records to be waiting behind the one the writer is at
InitWriter ==
    /\ num_demos \in 0 .. MaxEpisodes
    /\ num_procs = 1
    /\ Constructed
    /\ Idle
    /\ args = [copy_rewards |-> FALSE, copy_dones |-> FALSE]

SpecWriter == InitWriter /\ [][Next]_vars

(* ---------------- dataset_states_to_obs_multiprocessing ---------------- *)

\* lines 575-607: processes = [] and both Process(...) blocks are commented out,
\* so the loops that start and join the processes run over an empty list; what
\* runs is the call of line 590, extract_multiple_trajectories(0, ...), in the
\* dispatcher itself.  Line 610 is reached when that call has returned
MainReturn ==
    /\ mpc = "processes"
    /\ pc[0] \in {"done", "exited"}
    /\ mpc' = "returned"
    /\ UNCHANGED << config, worker, writer, mul_queue, faults, hist, lock, tmp, units >>

NextMain ==
    \/ Setup(0)
    \/ SetupFail(0)
    \/ LoopTest(0)
    \/ ExtractPut(0)
    \/ ExtractFail(0)
    \/ NextClaim(0)
    \/ PostPutFail(0)
    \/ RecreateFail(0)
    \/ CloseFail(0)
    \/ MainReturn

SpecMain == InitWorkers /\ [][NextMain]_vars

(* ---------------- extract_trajectory: the done signal ---------------- *)

\* lines 129-136: done = False; modes 1 and 2 or it with (t == traj_len), modes
\* 0 and 2 with env._check_success(); done = int(done)
done_signal(mode, step, succ) ==
    LET d0 == FALSE
        d1 == IF mode = 1 \/ mode = 2 THEN d0 \/ (step = traj_len) ELSE d0
        d2 == IF mode = 0 \/ mode = 2 THEN d1 \/ succ ELSE d1
    IN  IF d2 THEN 1 ELSE 0

\* range(traj_len)
StepRange == 0 .. (traj_len - 1)

\* --done_mode is an int; 0, 1 and 2 are the values the code tests for
DoneModes == {0, 1, 2}

\* extract_trajectory called on one trajectory, nothing else running
InitDones ==
    /\ num_demos = 0
    /\ num_procs = 1
    /\ Constructed
    /\ args = [copy_rewards |-> FALSE, copy_dones |-> FALSE]
    /\ done_mode \in DoneModes
    /\ t = EMPTY
    /\ success = FALSE
    /\ done = 0
    /\ IdleXml
    /\ IdleObj

\* one iteration of "for t in range(traj_len)", lines 100-136: the state t is
\* loaded, the simulator says whether it is a success state, done is computed
ExtractStep ==
    /\ mpc = "processes"
    /\ (IF t = EMPTY THEN 0 ELSE t + 1) \in StepRange
    /\ t' = IF t = EMPTY THEN 0 ELSE t + 1
    /\ \E s \in BOOLEAN :
          /\ success' = s
          /\ done' = done_signal(done_mode, t', s)
    /\ UNCHANGED << config, worker, writer, mul_queue, faults, hist, mpc, lock, tmp,
                    done_mode, xml, obj >>

SpecDones == InitDones /\ [][ExtractStep]_vars

(* ---------------- postprocess_model_xml ---------------- *)

\* the components a path is made of in the documents tried
PathNames == {"robosuite", "robosuite-model-zoo-dev", "assets", "meshes"}

\* str.split("/") returns at least one component
SeqsUpTo(n) == UNION {[1 .. k -> PathNames] : k \in 1 .. n}

\* line 26-27: os.path.split(robosuite.__file__)[0].split("/"), the directory
\* robosuite is installed in
path_split == << "", "usr", "lib", "robosuite" >>

\* line 61: os.path.split(robosuite_model_zoo.__file__)[0].split("/")[:-1], the
\* directory above the installed robosuite_model_zoo package
zoo_path_split == << "", "opt", "robosuite-model-zoo-dev" >>

\* lines 43-45 and 53-57: [loc for loc, val in enumerate(old_path_split) if val == name]
check_lst(sp, name) == {loc \in 1 .. Len(sp) : sp[loc] = name}

\* lines 47 and 59: ind = max(check_lst)
last_index_min(lst) == CHOOSE loc \in lst : \A other \in lst : loc <= other

last_index(lst) == CHOOSE loc \in lst : \A other \in lst : other <= loc

\* old_path_split[ind + 1 :]
rest_after(sp, loc) == SubSeq(sp, loc + 1, Len(sp))

\* lines 37-65, the body of "for elem in all_elements": both tests are made on
\* the components of old_path, and each one that finds its name sets the attribute
postprocess_elem(f) ==
    IF ~ f.present
      THEN f
      ELSE LET sp == f.split
               robo == check_lst(sp, "robosuite")
               zoo == check_lst(sp, "robosuite-model-zoo-dev")
               set1 == IF robo # {}
                         THEN Attr(path_split \o rest_after(sp, last_index(robo)))
                         ELSE f
               set2 == IF zoo # {}
                         THEN Attr(zoo_path_split \o rest_after(sp, last_index(zoo)))
                         ELSE set1
           IN  set2

\* a parsed document with one mesh or texture element
InitXml ==
    /\ num_demos = 0
    /\ num_procs = 1
    /\ Constructed
    /\ args = [copy_rewards |-> FALSE, copy_dones |-> FALSE]
    /\ IdleDones
    /\ IdleObj
    /\ elem_file \in {NoAttr} \cup {Attr(sp) : sp \in SeqsUpTo(MaxPathLen)}
    /\ old_path = NoAttr
    /\ xpc = "parsed"

PostprocessElem ==
    /\ xpc = "parsed"
    /\ old_path' = elem_file
    /\ elem_file' = postprocess_elem(elem_file)
    /\ xpc' = "done"
    /\ UNCHANGED << config, worker, writer, mul_queue, faults, hist, mpc, lock, tmp,
                    done_mode, t, success, done, obj >>

SpecXml == InitXml /\ [][PostprocessElem]_vars

(* ---------------- MJCFObject.__init__: the scale ---------------- *)

\* the values of a scalar scale and of the entries of a scale sequence
ScaleVals == 1 .. MaxScale

\* tuples and lists shorter than, as long as and longer than the three axes
ScaleSeqs == UNION {[1 .. k -> ScaleVals] : k \in 2 .. 4}

\* the scale arguments tried: Python floats and ints (2.0 and 2 are the val 2
\* of kind "float" and of kind "int"), tuples, lists, and a string
ScaleArgs ==
    {[kind |-> k, val |-> v] : k \in {"float", "int"}, v \in ScaleVals}
      \cup {[kind |-> k, val |-> v] : k \in {"tuple", "list"}, v \in ScaleSeqs}
      \cup {[kind |-> "str", val |-> 0]}

\* the scale attribute a mesh of the file has: none, or three numbers
MeshScales == {<< >>, << 1, 1, 1 >>, << 2, 1, 3 >>}

\* a * b of two numpy arrays of three numbers
Times(a, b) == [k \in 1 .. 3 |-> a[k] * b[k]]

\* lines 90-98: the array the scale argument is turned into, unless the
\* assert or the raise of the else branch ends the call
scale_in_xyz(sc) ==
    IF sc.kind = "float"
      THEN [raised |-> FALSE, arr |-> << sc.val, sc.val, sc.val >>]
      ELSE IF sc.kind \in {"tuple", "list"}
        THEN IF Len(sc.val) = 3
               THEN [raised |-> FALSE, arr |-> sc.val]
               ELSE [raised |-> TRUE, arr |-> << >>]
        ELSE [raised |-> TRUE, arr |-> << >>]

InitObj ==
    /\ num_demos = 0
    /\ num_procs = 1
    /\ Constructed
    /\ args = [copy_rewards |-> FALSE, copy_dones |-> FALSE]
    /\ IdleDones
    /\ IdleXml
    /\ scale \in ScaleArgs
    /\ scale_arr = << >>
    /\ xml_file \in [mesh : MeshScales, site : {<< 0, 0, 1 >>}]
    /\ tree = NoTree
    /\ opc = "call"

\* lines 90-98: isinstance tests, assert len(scale) == 3, raise Exception
CheckScale ==
    /\ opc = "call"
    /\ opc' = IF scale_in_xyz(scale).raised THEN "rejected" ELSE "checked"
    /\ scale_arr' = scale_in_xyz(scale).arr
    /\ UNCHANGED << config, worker, writer, mul_queue, faults, hist, mpc, lock, tmp,
                    done_mode, t, success, done, xml, scale, xml_file, tree >>

\* lines 110-131: the file is parsed, each mesh's scale is set to the requested
\* scale, times its existing scale if it has one, and the pos of each of the
\* three sites is multiplied by the scale
ScaleXml ==
    /\ opc = "checked"
    /\ tree' = [read |-> TRUE,
                mesh |-> IF xml_file.mesh = << >>
                           THEN scale_arr
                           ELSE Times(xml_file.mesh, scale_arr),
                site |-> Times(scale_arr, xml_file.site)]
    /\ opc' = "built"
    /\ UNCHANGED << config, worker, writer, mul_queue, faults, hist, mpc, lock, tmp,
                    done_mode, t, success, done, xml, scale, scale_arr, xml_file >>

NextObj == CheckScale \/ ScaleXml

SpecObj == InitObj /\ [][NextObj]_vars

(* ---------------- retrieve_new_index, statement by statement ---------------- *)

\* current_work_array[process_num] = tmp
store_slot_zero(arr, p, v) == [arr EXCEPT ![0] = v]

store_slot(arr, p, v) == [arr EXCEPT ![p] = v]

\* line 381, called from line 432 (after lines 395-430) or from line 486:
\* "with lock" is entered when no process holds the lock
LockAcquire(p) ==
    /\ pc[p] \in {"start", "claim"}
    /\ lock = EMPTY
    /\ lock' = p
    /\ env' = [env EXCEPT ![p] = IF pc[p] = "start" THEN "first" ELSE @]
    /\ pc' = [pc EXCEPT ![p] = "r_check"]
    /\ UNCHANGED << config, work_queue, current_work_array, mul_queue, ind, writer,
                    faults, hist, mpc, tmp, units >>

\* the function returns v: the lock is released on leaving "with lock"
lock_return(p, v) ==
    /\ ind' = [ind EXCEPT ![p] = v]
    /\ lock' = EMPTY
    /\ tmp' = [tmp EXCEPT ![p] = EMPTY]
    /\ pc' = [pc EXCEPT ![p] = "test"]
    /\ hist' = IF v = EMPTY
                 THEN [hist EXCEPT !.emptyCall = TRUE]
                 ELSE [hist EXCEPT !.claimed[v] = @ + 1,
                                   !.held[p] = v,
                                   !.fresh[p] = TRUE]

\* lines 382-383: if work_queue.empty(): return -1
LockCheckEmpty(p) ==
    /\ pc[p] = "r_check"
    /\ IF work_queue = << >>
         THEN lock_return(p, EMPTY)
         ELSE /\ pc' = [pc EXCEPT ![p] = "r_get"]
              /\ UNCHANGED << ind, lock, tmp, hist >>
    /\ UNCHANGED << config, work_queue, current_work_array, mul_queue, env, writer,
                    faults, mpc, units >>

\* lines 384-385 and 388-389: tmp = work_queue.get(False), or return -1 on queue.Empty
LockGet(p) ==
    /\ pc[p] = "r_get"
    /\ LET r == retrieve_new_index(work_queue) IN
         IF r.ret = EMPTY
           THEN /\ lock_return(p, EMPTY)
                /\ UNCHANGED work_queue
           ELSE /\ work_queue' = r.queue
                /\ tmp' = [tmp EXCEPT ![p] = r.ret]
                /\ pc' = [pc EXCEPT ![p] = "r_store"]
                /\ UNCHANGED << ind, lock, hist >>
    /\ UNCHANGED << config, current_work_array, mul_queue, env, writer, faults, mpc, units >>

\* line 386
LockStore(p) ==
    /\ pc[p] = "r_store"
    /\ current_work_array' = store_slot(current_work_array, p, tmp[p])
    /\ pc' = [pc EXCEPT ![p] = "r_return"]
    /\ UNCHANGED << config, work_queue, mul_queue, ind, env, writer, faults, hist,
                    mpc, lock, tmp, units >>

\* line 387: return tmp
LockReturn(p) ==
    /\ pc[p] = "r_return"
    /\ lock_return(p, tmp[p])
    /\ UNCHANGED << config, work_queue, current_work_array, mul_queue, env, writer,
                    faults, mpc, units >>

\* the workers with the calls of retrieve_new_index taken statement by statement
NextLock ==
    \/ \E p \in Procs : LockAcquire(p)
    \/ \E p \in Procs : LockCheckEmpty(p)
    \/ \E p \in Procs : LockGet(p)
    \/ \E p \in Procs : LockStore(p)
    \/ \E p \in Procs : LockReturn(p)
    \/ \E p \in Procs : SetupFail(p)
    \/ \E p \in Procs : LoopTest(p)
    \/ \E p \in Procs : ExtractPut(p)
    \/ \E p \in Procs : ExtractFail(p)
    \/ \E p \in Procs : PostPutFail(p)
    \/ \E p \in Procs : RecreateFail(p)
    \/ \E p \in Procs : CloseFail(p)

\* sources the replay raises on and sources it accepts; how many rows a record
\* has is nothing a call of retrieve_new_index depends on
InitLock == InitWorkers /\ \A i \in Indices : states_len[i] <= traj_len
SpecLock == InitLock /\ [][NextLock]_vars

(* ======================= properties ======================= *)

RECURSIVE SumTo(_, _)
\* f[0] + ... + f[n - 1]
SumTo(f, n) == IF n = 0 THEN 0 ELSE f[n - 1] + SumTo(f, n - 1)

Terminated(p) == pc[p] \in {"done", "exited"}
AllTerminated == \A p \in Procs : Terminated(p)
InQueue(i) == \E k \in 1 .. Len(work_queue) : work_queue[k] = i
SuccessfulClaims == SumTo(hist.claimed, num_demos)
RecordsPut == SumTo(hist.put, num_demos)
NoRetry == \A i \in Slots : hist.requeued[i] = 0
NothingRaised == faults = 0 /\ \A i \in Slots : hist.failed[i] = 0

\* C1: once every worker has returned, each index of 0..N-1 has been completed
\* exactly once (one record on the output queue) or is back on the work queue; no
\* index is left claimed by a finished worker.
C1_EveryIndexCompletedOrQueued ==
    AllTerminated => \A i \in Indices : hist.put[i] = 1 \/ InQueue(i)

\* C2: absent retries, the successful retrieve_new_index calls return distinct
\* indices of 0..N-1, there are N of them once the queue is empty and never more,
\* a call fails only after all N succeeded, and a successful call leaves the
\* returned index in the caller's slot of current_work_array.
C2_ExactlyNClaims ==
    NoRetry =>
        /\ \A i \in Indices : hist.claimed[i] <= 1
        /\ SuccessfulClaims + Len(work_queue) = num_demos
        /\ hist.emptyCall => SuccessfulClaims = num_demos
        /\ \A p \in Procs :
              ind[p] # EMPTY => ind[p] \in Indices /\ current_work_array[p] = ind[p]

\* C2 witness: two or more indices, all claimed once, and a later call has failed
C2_Witness ==
    /\ NoRetry
    /\ num_demos >= 2
    /\ \A i \in Indices : hist.claimed[i] = 1
    /\ hist.emptyCall
    /\ \E p \in Procs : ind[p] # EMPTY

\* C3: in a run where nothing raises, a worker that has left its loop holds no
\* claimed index without a record, and when all workers have returned the N
\* indices have yielded N records.
C3_EveryClaimProcessed ==
    NothingRaised =>
        /\ \A p \in Procs : pc[p] = "done" => hist.held[p] = EMPTY
        /\ AllTerminated => RecordsPut = num_demos

\* C4: once the writer has received N = num_demos records it does not go on to
\* take another record from the output queue.
C4_WriterStopsAtN ==
    num_processed >= num_demos => wpc # "get"

\* C5: the number of episode groups created equals the number of records the
\* writer has received.
C5_GroupsEqualReceived ==
    Len(groups) = num_processed

\* C6: in every episode group written in full, every dataset has num_samples rows.
C6_ConsistentRows ==
    \A k \in 1 .. Len(groups) :
        groups[k].num_samples # EMPTY =>
            \A d \in DOMAIN groups[k].rows : groups[k].rows[d] = groups[k].num_samples

\* C7: a worker that starts an extraction attempt has claimed an index since its
\* last failed attempt.
C7_NextAttemptNewlyClaimed ==
    \A p \in Procs : pc[p] = "body" => hist.fresh[p]

\* C8: when an exception escaped a worker, the value put back on the work queue
\* is the index the worker had claimed and not yet completed.
C8_PutBackIsHeldIndex ==
    \A p \in Procs :
        hist.escaped[p] => hist.exitHeld[p] # EMPTY /\ hist.exitPut[p] = hist.exitHeld[p]

\* C9: an index is put back on the work queue at most as often as an attempt at
\* processing it has failed.
C9_RequeuedAtMostOncePerFailure ==
    \A i \in Slots : hist.requeued[i] <= hist.failed[i]

\* C10: when all workers have returned, an index whose extraction failed is on
\* the work queue or has a record.
C10_FailedIndexNotLost ==
    AllTerminated =>
        \A i \in Indices : hist.failed[i] > 0 => InQueue(i) \/ hist.put[i] > 0

\* occurrences of i on the work queue
QueueCount(i) == Cardinality({k \in 1 .. Len(work_queue) : work_queue[k] = i})
\* workers inside retrieve_new_index that have popped i and not yet returned it
InFlight(i) ==
    Cardinality({p \in Procs : pc[p] \in {"r_store", "r_return"} /\ tmp[p] = i})
\* times i was put on the work queue: once at the start for an index of the
\* dataset, and once per put of the outer handler
TimesQueued(i) == (IF i \in Indices THEN 1 ELSE 0) + hist.requeued[i]

\* C11: with the calls of retrieve_new_index interleaved statement by statement,
\* every copy of an index put on the work queue is on the queue, popped by one
\* worker still inside the call, or was returned to one worker, so that no popped
\* index is returned twice; and after a call that returned an index to worker p,
\* p's slot of current_work_array holds that index.
C11_HandedToOneWorker ==
    /\ \A i \in Slots : hist.claimed[i] + InFlight(i) + QueueCount(i) = TimesQueued(i)
    /\ \A p \in Procs :
          /\ pc[p] = "r_return" => current_work_array[p] = tmp[p]
          /\ pc[p] \in {"test", "body", "claim"} /\ ind[p] # EMPTY =>
                current_work_array[p] = ind[p]

\* C11 witness: two workers have each been returned an index, different ones,
\* through two separate calls of retrieve_new_index
C11_Witness ==
    \E p \in Procs : \E q \in Procs :
        /\ p # q
        /\ pc[p] \in {"test", "body"} /\ ind[p] # EMPTY
        /\ pc[q] \in {"test", "body"} /\ ind[q] # EMPTY
        /\ ind[p] # ind[q]
        /\ hist.claimed[ind[p]] = 1 /\ hist.claimed[ind[q]] = 1

\* a write of a received record has raised: the record was counted and either
\* no group was made for it or its group was left without num_samples
WriteRaised ==
    \/ num_processed > Len(groups)
    \/ \E k \in 1 .. Len(groups) : groups[k].num_samples = EMPTY

IsPrefix(s1, s2) == Len(s1) <= Len(s2) /\ \A k \in 1 .. Len(s1) : s1[k] = s2[k]

LastStep == traj_len - 1

\* C13: the done written for a step is 1 exactly at success states with
\* done_mode 0, exactly at the last step with done_mode 1, and exactly at the
\* last step and at success states with done_mode 2
C13_DoneSignal ==
    t # EMPTY =>
        /\ done_mode = 0 => (done = 1 <=> success)
        /\ done_mode = 1 => (done = 1 <=> t = LastStep)
        /\ done_mode = 2 => (done = 1 <=> (t = LastStep \/ success))

\* C14: when the dispatcher has returned from a run in which nothing raised,
\* the output queue is empty and every record put on it is an episode group
C14_RecordsWrittenAtReturn ==
    mpc = "returned" /\ NothingRaised =>
        /\ mul_queue = << >>
        /\ Len(groups) = RecordsPut

Has(sp, name) == \E k \in 1 .. Len(sp) : sp[k] = name

\* the components after the last component equal to name
AfterLast(sp, name) ==
    LET k == CHOOSE j \in 1 .. Len(sp) :
                 sp[j] = name /\ \A m \in (j + 1) .. Len(sp) : sp[m] # name
    IN  [m \in 1 .. (Len(sp) - k) |-> sp[k + m]]

\* C15 as stated: a path with a component "robosuite" becomes the robosuite
\* directory followed by what comes after its last occurrence, a path with a
\* component "robosuite-model-zoo-dev" the model-zoo root followed by what comes
\* after its last occurrence, anything else is left as it was
C15_AsStated ==
    xpc = "done" =>
        IF ~ old_path.present
          THEN elem_file = old_path
          ELSE LET sp == old_path.split IN
                 /\ Has(sp, "robosuite") =>
                       elem_file = Attr(path_split \o AfterLast(sp, "robosuite"))
                 /\ Has(sp, "robosuite-model-zoo-dev") =>
                       elem_file = Attr(zoo_path_split \o
                                        AfterLast(sp, "robosuite-model-zoo-dev"))
                 /\ ~ Has(sp, "robosuite") /\ ~ Has(sp, "robosuite-model-zoo-dev") =>
                       elem_file = old_path

\* C15: a path with a component "robosuite-model-zoo-dev" becomes the model-zoo
\* root followed by what comes after its last occurrence, whether or not it has
\* a component "robosuite" too; a path with "robosuite" and without
\* "robosuite-model-zoo-dev" becomes the robosuite directory followed by what
\* comes after its last occurrence; anything else is left as it was
C15_ModelZooFirst ==
    xpc = "done" =>
        IF ~ old_path.present
          THEN elem_file = old_path
          ELSE LET sp == old_path.split IN
                 IF Has(sp, "robosuite-model-zoo-dev")
                   THEN elem_file = Attr(zoo_path_split \o
                                         AfterLast(sp, "robosuite-model-zoo-dev"))
                   ELSE IF Has(sp, "robosuite")
                     THEN elem_file = Attr(path_split \o AfterLast(sp, "robosuite"))
                     ELSE elem_file = old_path

\* C15 witness: an element whose path has both names, one of them twice, has
\* been rewritten
C15_Witness ==
    /\ xpc = "done"
    /\ old_path.present
    /\ Has(old_path.split, "robosuite")
    /\ Cardinality(check_lst(old_path.split, "robosuite-model-zoo-dev")) = 2
    /\ elem_file # old_path

\* the scale per axis a scale argument asks for
Requested(sc) == IF sc.kind \in {"float", "int"} THEN << sc.val, sc.val, sc.val >> ELSE sc.val

\* a number, or a tuple or list of exactly three numbers
ValidScale(sc) ==
    \/ sc.kind \in {"float", "int"}
    \/ sc.kind \in {"tuple", "list"} /\ Len(sc.val) = 3

\* C16: construction with a number or with a tuple or list of three numbers is
\* not rejected and, once the document is modified, the mesh's scale is its
\* existing scale (1 when absent) times the requested scale and the site's pos
\* is multiplied by it; any other scale is rejected with no file read
C16_ScaleApplied ==
    /\ opc = "rejected" => ~ ValidScale(scale) /\ ~ tree.read
    /\ opc \in {"checked", "built"} => ValidScale(scale)
    /\ opc = "built" =>
          /\ tree.mesh = Times(IF xml_file.mesh = << >> THEN << 1, 1, 1 >> ELSE xml_file.mesh,
                                Requested(scale))
          /\ tree.site = Times(xml_file.site, Requested(scale))

HeldCount(i) == Cardinality({p \in Procs : hist.held[p] = i})

\* C17: every index is in at most one place and there at most once: on the work
\* queue, held by one worker that has not completed it, or completed; and a
\* worker that fails while it holds no index puts nothing on the work queue
C17_IndexInOnePlace ==
    /\ \A i \in Indices : QueueCount(i) + HeldCount(i) + hist.put[i] <= 1
    /\ \A p \in Procs :
          hist.escaped[p] /\ hist.exitHeld[p] = EMPTY => hist.exitPut[p] = EMPTY

\* the num_samples attributes of the first k episode groups, added up
RECURSIVE SumSamples(_)
SumSamples(k) == IF k = 0 THEN 0 ELSE groups[k].num_samples + SumSamples(k - 1)

\* C18: when the writer has finished, the "total" attribute is the sum of the
\* num_samples attributes of the episode groups
C18_TotalIsSumOfSamples ==
    wpc = "finished" => total_attr = SumSamples(Len(groups))

\* C19: every worker eventually terminates, by returning from
\* extract_multiple_trajectories_with_error or through the outer handler
C19_EveryWorkerTerminates == <>AllTerminated

====
